---- MODULE Spec2Model ----
(***************************************************************************)
(* Greedy graph colouring: IDO, DSATUR (generic_greedy_coloring) and RLF   *)
(* (RLF_coloring) of "Incidence_Degree_Ordering_(IDO).cpp", run one after  *)
(* the other on the vertex store that readGraphFile filled.                *)
(***************************************************************************)
EXTENDS Integers, Sequences, FiniteSets, TLC

\* Largest number of vertices of the graphs that are loaded.
MaxN == 4

\* color == -1 marks an uncolored vertex (struct Vertex); 0 stands for nullptr
\* wherever the code holds a Vertex* (ids are 1..num_vertices).
Uncolored == -1
nullptr == 0

VARIABLES
    num_vertices,                    \* 'p' line: number of vertices
    edges,                           \* the 'e' lines of the file, in order
    sortOrder,                       \* what std::sort makes of the pointer list
    vertices,                        \* std::vector<Vertex>, indices 1..num_vertices
    pc,                              \* position of the driver that is running
    alg_name,                        \* "IDO", "DSATUR" or "RLF": the driver called last
    color_palette,                   \* generic_greedy_coloring locals
    next_available_color_idx,
    uncolored_vertices_ptrs,
    initial_vertex,
    best_vertex_for_this_iteration,
    current_color,                   \* RLF_coloring locals
    total_colored_vertices,
    forbidden_for_current_color,
    v_i,
    v_j_candidate,
    ret,                             \* value the last driver returned (-1: none yet)
    warned                           \* a "Warning ... Breaking loop" exit was taken

vars == <<num_vertices, edges, sortOrder, vertices, pc, alg_name, color_palette,
          next_available_color_idx, uncolored_vertices_ptrs, initial_vertex,
          best_vertex_for_this_iteration, current_color, total_colored_vertices,
          forbidden_for_current_color, v_i, v_j_candidate, ret, warned>>

----------------------------------------------------------------------------
(* Sequences helpers *)

Range(s) == {s[i] : i \in 1..Len(s)}

\* std::remove + erase of one value from a vector
EraseValue(s, x) == SelectSeq(s, LAMBDA y : y # x)

\* F applied to the value of e, with e evaluated once
Eval(F(_), e) == CHOOSE r \in {F(a) : a \in {e}} : TRUE

----------------------------------------------------------------------------
(* struct Vertex and readGraphFile *)

Vertex(i) == [id |-> i, degree |-> 0, color |-> Uncolored,
              neighbors |-> <<>>, heuristic_value |-> 0]

\* one 'e' line: both adjacency lists grow, both degrees are incremented;
\* an endpoint out of 1..n only prints a warning
AddEdge(vs, n, u, v) ==
    IF u > 0 /\ u <= n /\ v > 0 /\ v <= n
    THEN LET a == [vs EXCEPT ![u].neighbors = Append(@, v)]
             b == [a EXCEPT ![v].neighbors = Append(@, u)]
             c == [b EXCEPT ![u].degree = @ + 1]
         IN  [c EXCEPT ![v].degree = @ + 1]
    ELSE vs

RECURSIVE ReadEdges(_, _, _)
ReadEdges(vs, n, es) ==
    IF es = <<>> THEN vs
    ELSE ReadEdges(AddEdge(vs, n, Head(es)[1], Head(es)[2]), n, Tail(es))

\* the vertex store after the 'p' line and all 'e' lines
readGraphFile(n, es) == ReadEdges([i \in 1..n |-> Vertex(i)], n, es)

----------------------------------------------------------------------------
(* The inputs: edge lists of simple undirected graphs on 1..n *)

Pairs(n) == {p \in (1..n) \X (1..n) : p[1] < p[2]}

PairKey(p) == p[1] * (MaxN + 2) + p[2]

RECURSIVE EdgeList(_)
EdgeList(E) ==
    IF E = {} THEN <<>>
    ELSE LET m == CHOOSE p \in E : \A q \in E : PairKey(p) <= PairKey(q)
         IN  <<m>> \o EdgeList(E \ {m})

\* std::sort with the comparator a->degree > b->degree is not a stable sort:
\* the result is some permutation of the list that is non-increasing in
\* degree; which one is the library's choice, the same for the same input.
SortOutcomes(vs, n) ==
    {s \in [1..n -> 1..n] :
        /\ \A i, j \in 1..n : i # j => s[i] # s[j]
        /\ \A i \in 1..n : i < n => vs[s[i]].degree >= vs[s[i + 1]].degree}

----------------------------------------------------------------------------
(* The running driver as a record: the vertex store and the driver's locals *)

NoLocals ==
    [color_palette |-> <<>>, next_available_color_idx |-> 0,
     uncolored_vertices_ptrs |-> <<>>, initial_vertex |-> nullptr,
     best_vertex_for_this_iteration |-> nullptr,
     current_color |-> 0, total_colored_vertices |-> 0,
     forbidden_for_current_color |-> <<>>, v_i |-> nullptr,
     v_j_candidate |-> nullptr]

\* a driver is entered: its locals are fresh, the store is what the caller passes
Frame(vs, n, order, name) ==
    [f \in DOMAIN NoLocals \cup {"vertices", "num_vertices", "sortOrder", "pc",
                                 "alg_name", "ret", "warned"} |->
        CASE f = "vertices" -> vs
          [] f = "num_vertices" -> n
          [] f = "sortOrder" -> order
          [] f = "pc" -> "enter"
          [] f = "alg_name" -> name
          [] f = "ret" -> -1
          [] f = "warned" -> FALSE
          [] OTHER -> NoLocals[f]]

\* return value: the locals go out of scope, the store keeps what was written
Return(s, value) ==
    [f \in DOMAIN s |->
        CASE f = "pc" -> "done"
          [] f = "ret" -> value
          [] f \in DOMAIN NoLocals -> NoLocals[f]
          [] OTHER -> s[f]]

----------------------------------------------------------------------------
(* isColorValid and the heuristics *)

\* mutant: the scan starts at the second neighbor
isColorValid_SkipsFirst(current_vertex, color, all_vertices) ==
    \A k \in 2..Len(current_vertex.neighbors) :
        all_vertices[current_vertex.neighbors[k]].color # color

\* mutant: != for == in the comparison of line 104
isColorValid_Inverted(current_vertex, color, all_vertices) ==
    \A k \in 1..Len(current_vertex.neighbors) :
        all_vertices[current_vertex.neighbors[k]].color = color

isColorValid(current_vertex, color, all_vertices) ==
    \A k \in 1..Len(current_vertex.neighbors) :
        all_vertices[current_vertex.neighbors[k]].color # color

\* DSATUR: size of the std::set of the colored neighbors' colors
SaturationDegree(v, vs) ==
    Cardinality({vs[v.neighbors[k]].color : k \in
                    {j \in 1..Len(v.neighbors) : vs[v.neighbors[j]].color # Uncolored}})

\* IDO: one increment per entry of the neighbor list that is colored
ColoredNeighborCount(v, vs) ==
    Cardinality({k \in 1..Len(v.neighbors) : vs[v.neighbors[k]].color # Uncolored})

Heuristic(name, v, vs) ==
    IF name = "DSATUR" THEN SaturationDegree(v, vs) ELSE ColoredNeighborCount(v, vs)

----------------------------------------------------------------------------
(* generic_greedy_coloring *)

\* std::sort of the pointer list <<1, ..., n>> by degree, larger first
StdSort(s) == s.sortOrder

\* mutant: line 141 is missing, the colors of the earlier run stay
GreedyEnter_NoReset(s) ==
    LET n  == s.num_vertices
        s1 == [s EXCEPT !.color_palette = <<>>,
                        !.next_available_color_idx = 0,
                        !.uncolored_vertices_ptrs = [i \in 1..n |-> i]]
    IN  IF s1.uncolored_vertices_ptrs = <<>>
        THEN Return(s1, 0)
        ELSE [s1 EXCEPT !.pc = "sort"]

\* lines 131-148: colors reset, pointer list built, empty graph returns 0
GreedyEnter(s) ==
    LET n  == s.num_vertices
        vs == [i \in 1..n |-> [s.vertices[i] EXCEPT !.color = Uncolored]]
        s1 == [s EXCEPT !.vertices = vs,
                        !.color_palette = <<>>,
                        !.next_available_color_idx = 0,
                        !.uncolored_vertices_ptrs = [i \in 1..n |-> i]]
    IN  IF s1.uncolored_vertices_ptrs = <<>>
        THEN Return(s1, 0)
        ELSE [s1 EXCEPT !.pc = "sort"]

\* lines 150-158: the list is sorted by degree, its head is the first vertex
GreedyBootstrapSelect(s) ==
    LET sorted == StdSort(s)
    IN  [s EXCEPT !.uncolored_vertices_ptrs = sorted,
                  !.initial_vertex = sorted[1],
                  !.pc = "bootstrap"]

\* lines 159-166: the first vertex takes color 0 and leaves the list
GreedyBootstrapColor(s) ==
    LET c == s.next_available_color_idx
    IN  [s EXCEPT !.vertices[s.initial_vertex].color = c,
                  !.color_palette = Append(@, c),
                  !.next_available_color_idx = c + 1,
                  !.uncolored_vertices_ptrs = EraseValue(@, s.initial_vertex),
                  !.pc = "loop"]

\* mutant: the test for nullptr of line 194 is missing
Better_NeverFirst(vs, v, best) ==
    /\ best # nullptr
    /\ \/ vs[v].heuristic_value > vs[best].heuristic_value
       \/ /\ vs[v].heuristic_value = vs[best].heuristic_value
          /\ vs[v].degree > vs[best].degree

\* lines 192-199: does v replace the best vertex found so far
Better(vs, v, best) ==
    \/ best = nullptr
    \/ vs[v].heuristic_value > vs[best].heuristic_value
    \/ /\ vs[v].heuristic_value = vs[best].heuristic_value
       /\ vs[v].degree > vs[best].degree

\* mutant: lines 175-190 are missing, the heuristic values are the old ones
SelectionVisit_NoRecompute(name, v, acc) ==
    [vs |-> acc.vs, best |-> IF Better(acc.vs, v, acc.best) THEN v ELSE acc.best]

\* lines 175-199: the loop body for v_ptr = v; acc = [vs, best]
SelectionVisit(name, v, acc) ==
    LET vs1 == [acc.vs EXCEPT ![v].heuristic_value = Heuristic(name, acc.vs[v], acc.vs)]
    IN  [vs |-> vs1, best |-> IF Better(vs1, v, acc.best) THEN v ELSE acc.best]

\* lines 174-200: one pass over the list
RECURSIVE SelectionPass(_, _, _)
SelectionPass(name, list, acc) ==
    IF list = <<>> THEN acc
    ELSE LET Rest(a) == SelectionPass(name, Tail(list), a)
         IN  Eval(Rest, SelectionVisit(name, Head(list), acc))

\* lines 170-205: heuristics recomputed, best vertex chosen
GreedySelect(s) ==
    LET r  == SelectionPass(s.alg_name, s.uncolored_vertices_ptrs,
                            [vs |-> s.vertices, best |-> nullptr])
        s1 == [s EXCEPT !.vertices = r.vs, !.best_vertex_for_this_iteration = r.best]
    IN  IF r.best = nullptr
        THEN Return([s1 EXCEPT !.warned = TRUE], s1.next_available_color_idx)
        ELSE [s1 EXCEPT !.pc = "assign"]

\* mutant: the break of line 212 is missing, the last valid color wins
RECURSIVE FirstValidColor_LastFit(_, _, _)
FirstValidColor_LastFit(palette, v, vs) ==
    IF palette = <<>> THEN -1
    ELSE IF isColorValid(v, palette[Len(palette)], vs) THEN palette[Len(palette)]
    ELSE FirstValidColor_LastFit(SubSeq(palette, 1, Len(palette) - 1), v, vs)

\* lines 208-214: first color of the palette that is valid for v, or -1
RECURSIVE FirstValidColor(_, _, _)
FirstValidColor(palette, v, vs) ==
    IF palette = <<>> THEN -1
    ELSE IF isColorValid(v, Head(palette), vs) THEN Head(palette)
    ELSE FirstValidColor(Tail(palette), v, vs)

\* mutant: the push_back of line 219 is missing
GreedyAssign_NoPush(s) ==
    LET b      == s.best_vertex_for_this_iteration
        found  == FirstValidColor(s.color_palette, s.vertices[b], s.vertices)
        isNew  == found = -1
        chosen == IF isNew THEN s.next_available_color_idx ELSE found
    IN  [s EXCEPT !.vertices[b].color = chosen,
                  !.next_available_color_idx = IF isNew THEN @ + 1 ELSE @,
                  !.uncolored_vertices_ptrs = EraseValue(@, b),
                  !.pc = "loop"]

\* lines 207-228: the chosen vertex is colored and leaves the list
GreedyAssign(s) ==
    LET b      == s.best_vertex_for_this_iteration
        found  == FirstValidColor(s.color_palette, s.vertices[b], s.vertices)
        isNew  == found = -1
        chosen == IF isNew THEN s.next_available_color_idx ELSE found
    IN  [s EXCEPT !.vertices[b].color = chosen,
                  !.color_palette = IF isNew THEN Append(@, chosen) ELSE @,
                  !.next_available_color_idx = IF isNew THEN @ + 1 ELSE @,
                  !.uncolored_vertices_ptrs = EraseValue(@, b),
                  !.pc = "loop"]

\* lines 170, 231: the list is empty, the number of colors is returned
GreedyReturn(s) == Return(s, s.next_available_color_idx)

----------------------------------------------------------------------------
(* find_max_degree_uncolored_vertex and RLF_coloring *)

\* lines 118-123: the loop body for index i; acc = [v, max_degree]
MaxDegreeVisit(vs, i, acc) ==
    IF vs[i].color = Uncolored /\ (acc.v = nullptr \/ vs[i].degree > acc.max_degree)
    THEN [v |-> i, max_degree |-> vs[i].degree]
    ELSE acc

\* lines 117-124, from index i on
RECURSIVE MaxDegreeScan(_, _, _, _)
MaxDegreeScan(vs, n, i, acc) ==
    IF i > n THEN acc.v
    ELSE LET Rest(a) == MaxDegreeScan(vs, n, i + 1, a)
         IN  Eval(Rest, MaxDegreeVisit(vs, i, acc))

find_max_degree_uncolored_vertex(vs, n) ==
    MaxDegreeScan(vs, n, 1, [v |-> nullptr, max_degree |-> -1])

\* lines 245-252: counters at 0, colors reset
RLFEnter(s) ==
    LET n == s.num_vertices
    IN  [s EXCEPT !.current_color = 0,
                  !.total_colored_vertices = 0,
                  !.vertices = [i \in 1..n |-> [s.vertices[i] EXCEPT !.color = Uncolored]],
                  !.pc = "outer"]

\* lines 255-262: the seed of the next color class
RLFSeedSelect(s) ==
    LET v == find_max_degree_uncolored_vertex(s.vertices, s.num_vertices)
    IN  IF v = nullptr
        THEN Return([s EXCEPT !.warned = TRUE], s.current_color)
        ELSE [s EXCEPT !.v_i = v, !.pc = "seed"]

\* forbidden[neighbor_id] = true for every neighbor of v
Forbid(forbidden, v) ==
    [k \in DOMAIN forbidden |-> forbidden[k] \/ k \in Range(v.neighbors)]

\* lines 264-275: the seed is colored, its neighbors are the forbidden set
RLFSeedColor(s) ==
    LET n == s.num_vertices
    IN  [s EXCEPT !.vertices[s.v_i].color = s.current_color,
                  !.total_colored_vertices = @ + 1,
                  !.forbidden_for_current_color =
                      Forbid([k \in 0..n |-> FALSE], s.vertices[s.v_i]),
                  !.pc = "inner"]

\* lines 286-291: neighbors of v that are in U
AdjInU(v, forbidden) ==
    Cardinality({j \in 1..Len(v.neighbors) : forbidden[v.neighbors[j]]})

\* mutant: the degree test of line 298 is missing
CandidateVisit_NoDegree(forbidden, k, acc) ==
    IF acc.vs[k].color = Uncolored /\ ~forbidden[k]
    THEN LET vs1  == [acc.vs EXCEPT ![k].heuristic_value = AdjInU(acc.vs[k], forbidden)]
             take == \/ acc.cand = nullptr
                     \/ vs1[k].heuristic_value > acc.max_adj_in_U
         IN  IF take
             THEN [vs |-> vs1, cand |-> k, max_adj_in_U |-> vs1[k].heuristic_value]
             ELSE [acc EXCEPT !.vs = vs1]
    ELSE acc

\* lines 284-303: the loop body for index k; acc = [vs, cand, max_adj_in_U]
CandidateVisit(forbidden, k, acc) ==
    IF acc.vs[k].color = Uncolored /\ ~forbidden[k]
    THEN LET vs1  == [acc.vs EXCEPT ![k].heuristic_value = AdjInU(acc.vs[k], forbidden)]
             take == \/ acc.cand = nullptr
                     \/ vs1[k].heuristic_value > acc.max_adj_in_U
                     \/ /\ vs1[k].heuristic_value = acc.max_adj_in_U
                        /\ vs1[k].degree > vs1[acc.cand].degree
         IN  IF take
             THEN [vs |-> vs1, cand |-> k, max_adj_in_U |-> vs1[k].heuristic_value]
             ELSE [acc EXCEPT !.vs = vs1]
    ELSE acc

\* lines 283-304, from index k on
RECURSIVE CandidateScan(_, _, _, _)
CandidateScan(n, forbidden, k, acc) ==
    IF k > n THEN acc
    ELSE LET Rest(a) == CandidateScan(n, forbidden, k + 1, a)
         IN  Eval(Rest, CandidateVisit(forbidden, k, acc))

\* lines 278-309 and 324: the next member of the class, or the class is closed
RLFInnerSelect(s) ==
    LET r  == CandidateScan(s.num_vertices, s.forbidden_for_current_color, 1,
                            [vs |-> s.vertices, cand |-> nullptr, max_adj_in_U |-> -1])
        s1 == [s EXCEPT !.vertices = r.vs, !.v_j_candidate = r.cand]
    IN  IF r.cand = nullptr
        THEN [s1 EXCEPT !.current_color = @ + 1,
                        !.forbidden_for_current_color = <<>>,
                        !.v_i = nullptr,
                        !.pc = "outer"]
        ELSE [s1 EXCEPT !.pc = "add"]

\* mutant: the loop of lines 316-318 is missing, U stays as the seed left it
RLFInnerAdd_NoForbid(s) ==
    [s EXCEPT !.vertices[s.v_j_candidate].color = s.current_color,
              !.total_colored_vertices = @ + 1,
              !.pc = "inner"]

\* lines 311-318: the candidate joins the class, its neighbors join U
RLFInnerAdd(s) ==
    [s EXCEPT !.vertices[s.v_j_candidate].color = s.current_color,
              !.total_colored_vertices = @ + 1,
              !.forbidden_for_current_color = Forbid(@, s.vertices[s.v_j_candidate]),
              !.pc = "inner"]

\* lines 255, 328: every vertex is counted as colored
RLFReturn(s) == Return(s, s.current_color)

----------------------------------------------------------------------------
(* The drivers step by step *)

Greedy(s) == s.alg_name \in {"IDO", "DSATUR"}

AtGreedyEnter(s)  == s.pc = "enter" /\ Greedy(s)
AtGreedySort(s)   == s.pc = "sort"
AtGreedyBoot(s)   == s.pc = "bootstrap"
AtGreedySelect(s) == s.pc = "loop" /\ s.uncolored_vertices_ptrs # <<>>
AtGreedyAssign(s) == s.pc = "assign"
AtGreedyReturn(s) == s.pc = "loop" /\ s.uncolored_vertices_ptrs = <<>>
AtRLFEnter(s)     == s.pc = "enter" /\ s.alg_name = "RLF"
AtRLFSeedSelect(s) == s.pc = "outer" /\ s.total_colored_vertices < s.num_vertices
AtRLFSeedColor(s) == s.pc = "seed"
AtRLFInnerSelect(s) == s.pc = "inner"
AtRLFInnerAdd(s)  == s.pc = "add"
AtRLFReturn(s)    == s.pc = "outer" /\ ~(s.total_colored_vertices < s.num_vertices)

\* the next step of the driver that is running in s
Step(s) ==
    CASE AtGreedyEnter(s)    -> GreedyEnter(s)
      [] AtGreedySort(s)     -> GreedyBootstrapSelect(s)
      [] AtGreedyBoot(s)     -> GreedyBootstrapColor(s)
      [] AtGreedySelect(s)   -> GreedySelect(s)
      [] AtGreedyAssign(s)   -> GreedyAssign(s)
      [] AtGreedyReturn(s)   -> GreedyReturn(s)
      [] AtRLFEnter(s)       -> RLFEnter(s)
      [] AtRLFSeedSelect(s)  -> RLFSeedSelect(s)
      [] AtRLFSeedColor(s)   -> RLFSeedColor(s)
      [] AtRLFInnerSelect(s) -> RLFInnerSelect(s)
      [] AtRLFInnerAdd(s)    -> RLFInnerAdd(s)
      [] AtRLFReturn(s)      -> RLFReturn(s)
      [] OTHER               -> s

\* a driver run to its return, in at most fuel steps
RECURSIVE RunToDone(_, _)
RunToDone(s, fuel) ==
    IF s.pc = "done" \/ fuel = 0 THEN s ELSE RunToDone(Step(s), fuel - 1)

\* the driver `name` called on the store as readGraphFile left it
FreshRun(name) ==
    RunToDone(Frame(readGraphFile(num_vertices, edges), num_vertices, sortOrder, name),
              3 * num_vertices + 3)

----------------------------------------------------------------------------
(* The state machine *)

Cur ==
    [vertices |-> vertices, num_vertices |-> num_vertices, sortOrder |-> sortOrder,
     pc |-> pc, alg_name |-> alg_name, ret |-> ret, warned |-> warned,
     color_palette |-> color_palette,
     next_available_color_idx |-> next_available_color_idx,
     uncolored_vertices_ptrs |-> uncolored_vertices_ptrs,
     initial_vertex |-> initial_vertex,
     best_vertex_for_this_iteration |-> best_vertex_for_this_iteration,
     current_color |-> current_color,
     total_colored_vertices |-> total_colored_vertices,
     forbidden_for_current_color |-> forbidden_for_current_color,
     v_i |-> v_i, v_j_candidate |-> v_j_candidate]

Becomes(s) ==
    /\ vertices' = s.vertices
    /\ pc' = s.pc
    /\ alg_name' = s.alg_name
    /\ ret' = s.ret
    /\ warned' = s.warned
    /\ color_palette' = s.color_palette
    /\ next_available_color_idx' = s.next_available_color_idx
    /\ uncolored_vertices_ptrs' = s.uncolored_vertices_ptrs
    /\ initial_vertex' = s.initial_vertex
    /\ best_vertex_for_this_iteration' = s.best_vertex_for_this_iteration
    /\ current_color' = s.current_color
    /\ total_colored_vertices' = s.total_colored_vertices
    /\ forbidden_for_current_color' = s.forbidden_for_current_color
    /\ v_i' = s.v_i
    /\ v_j_candidate' = s.v_j_candidate
    /\ UNCHANGED <<num_vertices, edges, sortOrder>>

\* the variables take the values of s, which is evaluated once
Set(s) == \E t \in {s} : Becomes(t)

Algorithms == {"IDO", "DSATUR", "RLF"}

Init ==
    /\ num_vertices \in 0..MaxN
    /\ \E E \in SUBSET Pairs(num_vertices) : edges = EdgeList(E)
    /\ vertices = readGraphFile(num_vertices, edges)
    /\ sortOrder \in SortOutcomes(vertices, num_vertices)
    /\ pc = "idle"
    /\ alg_name = "none"
    /\ ret = -1
    /\ warned = FALSE
    /\ color_palette = NoLocals.color_palette
    /\ next_available_color_idx = NoLocals.next_available_color_idx
    /\ uncolored_vertices_ptrs = NoLocals.uncolored_vertices_ptrs
    /\ initial_vertex = NoLocals.initial_vertex
    /\ best_vertex_for_this_iteration = NoLocals.best_vertex_for_this_iteration
    /\ current_color = NoLocals.current_color
    /\ total_colored_vertices = NoLocals.total_colored_vertices
    /\ forbidden_for_current_color = NoLocals.forbidden_for_current_color
    /\ v_i = NoLocals.v_i
    /\ v_j_candidate = NoLocals.v_j_candidate

\* main, lines 395, 408, 421: IDO_coloring, DSATUR_coloring or RLF_coloring is
\* called on the store the earlier calls left
Call(name) ==
    /\ pc \in {"idle", "done"}
    /\ Set(Frame(vertices, num_vertices, sortOrder, name))

DoGreedyEnter           == AtGreedyEnter(Cur)    /\ Set(GreedyEnter(Cur))
DoGreedyBootstrapSelect == AtGreedySort(Cur)     /\ Set(GreedyBootstrapSelect(Cur))
DoGreedyBootstrapColor  == AtGreedyBoot(Cur)     /\ Set(GreedyBootstrapColor(Cur))
DoGreedySelect          == AtGreedySelect(Cur)   /\ Set(GreedySelect(Cur))
DoGreedyAssign          == AtGreedyAssign(Cur)   /\ Set(GreedyAssign(Cur))
DoGreedyReturn          == AtGreedyReturn(Cur)   /\ Set(GreedyReturn(Cur))
DoRLFEnter              == AtRLFEnter(Cur)       /\ Set(RLFEnter(Cur))
DoRLFSeedSelect         == AtRLFSeedSelect(Cur)  /\ Set(RLFSeedSelect(Cur))
DoRLFSeedColor          == AtRLFSeedColor(Cur)   /\ Set(RLFSeedColor(Cur))
DoRLFInnerSelect        == AtRLFInnerSelect(Cur) /\ Set(RLFInnerSelect(Cur))
DoRLFInnerAdd           == AtRLFInnerAdd(Cur)    /\ Set(RLFInnerAdd(Cur))
DoRLFReturn             == AtRLFReturn(Cur)      /\ Set(RLFReturn(Cur))

DriverStep ==
    \/ DoGreedyEnter
    \/ DoGreedyBootstrapSelect
    \/ DoGreedyBootstrapColor
    \/ DoGreedySelect
    \/ DoGreedyAssign
    \/ DoGreedyReturn
    \/ DoRLFEnter
    \/ DoRLFSeedSelect
    \/ DoRLFSeedColor
    \/ DoRLFInnerSelect
    \/ DoRLFInnerAdd
    \/ DoRLFReturn

Next ==
    \/ \E name \in Algorithms : Call(name)
    \/ DriverStep

Spec == Init /\ [][Next]_vars

\* a driver that was called keeps running: no suspension points, single thread
FairSpec == Spec /\ WF_vars(DriverStep)

----------------------------------------------------------------------------
(* What the properties speak of: the graph of the input, the coloring *)

V == 1..num_vertices

\* u and v are the endpoints of some edge of the input
Adjacent(u, v) ==
    \E k \in 1..Len(edges) : edges[k] = <<u, v>> \/ edges[k] = <<v, u>>

Nbrs(v) == {u \in V : Adjacent(u, v)}

Color(v) == vertices[v].color

IsColored(v) == Color(v) # Uncolored

UncoloredSet == {v \in V : ~IsColored(v)}

ColorsUsed == {Color(v) : v \in V} \ {Uncolored}

Done == pc = "done"

GreedyRun == alg_name \in {"IDO", "DSATUR"}

\* C1: when a driver has returned, the endpoints of every edge hold different
\* colors; on the graph without vertices the driver returns 0.
C1_Validity ==
    Done =>
        /\ \A k \in 1..Len(edges) : Color(edges[k][1]) # Color(edges[k][2])
        /\ num_vertices = 0 => ret = 0

C1_Witness ==
    /\ Done
    /\ alg_name = "DSATUR"
    /\ Len(edges) >= 4
    /\ ret >= 3

\* C2: every driver that is called returns, every vertex then holds a color,
\* and the warning exits are never taken.
C2_Termination ==
    /\ (pc = "enter") ~> Done
    /\ [](Done => \A v \in V : IsColored(v))
    /\ [](~warned)

C2_Witness ==
    /\ Done
    /\ alg_name = "RLF"
    /\ num_vertices >= 3
    /\ ret >= 2
    /\ \A v \in V : IsColored(v)

\* C3: the value returned is the number of colors in use, the colors in use
\* are 0 .. ret-1, and the palette of the greedy driver is as long as
\* next_available_color_idx says in every state.
C3_ColorCount ==
    /\ Done => ColorsUsed = 0..(ret - 1) /\ ret = Cardinality(ColorsUsed)
    /\ Len(color_palette) = next_available_color_idx

C3_Witness ==
    /\ Done
    /\ alg_name = "IDO"
    /\ ret = 3
    /\ Len(edges) < 6

\* C4: with at least one vertex the count returned is at least 1, and it is 1
\* exactly when the graph has no edge.
C4_OneColorIffEdgeless ==
    (Done /\ num_vertices >= 1) =>
        /\ ret >= 1
        /\ ret = 1 <=> edges = <<>>

C4_Witness ==
    /\ Done
    /\ num_vertices >= 3
    /\ edges = <<>>
    /\ ret = 1
    /\ \A v \in V : Color(v) = 0

\* C5: whatever ran before on the store, a driver ends with the coloring and
\* the count it produces on the freshly loaded graph.
C5_IndependentOfEarlierRuns ==
    Done =>
        LET f == FreshRun(alg_name)
        IN  /\ f.pc = "done"
            /\ ret = f.ret
            /\ \A v \in V : Color(v) = f.vertices[v].color

\* a run that found heuristic values an earlier driver left behind
C5_Witness ==
    /\ Done
    /\ alg_name = "RLF"
    /\ ret >= 2
    /\ \E v \in V :
          vertices[v].heuristic_value # FreshRun("RLF").vertices[v].heuristic_value

\* number of distinct colors among the colored neighbors of v
DistinctNeighborColors(v) == Cardinality({Color(u) : u \in Nbrs(v)} \ {Uncolored})

\* number of neighbors of v that are colored
ColoredNeighbors(v) == Cardinality({u \in Nbrs(v) : IsColored(u)})

StaticDegree(v) == Cardinality(Nbrs(v))

\* the heuristic of the running greedy driver, on the coloring as it stands
LiveHeuristic(v) ==
    IF alg_name = "DSATUR" THEN DistinctNeighborColors(v) ELSE ColoredNeighbors(v)

\* the key of a is at least the key of b, keys being (heuristic, degree)
KeyAtLeast(a, b) ==
    \/ LiveHeuristic(a) > LiveHeuristic(b)
    \/ LiveHeuristic(a) = LiveHeuristic(b) /\ StaticDegree(a) >= StaticDegree(b)

SameKey(a, b) == KeyAtLeast(a, b) /\ KeyAtLeast(b, a)

\* C6: in a DSATUR run the vertex that is selected, the first one included,
\* carries as heuristic_value the number of distinct colors of its colored
\* neighbors.
C6_SaturationAtSelection ==
    alg_name = "DSATUR" =>
        /\ pc = "bootstrap" =>
              vertices[initial_vertex].heuristic_value
                  = DistinctNeighborColors(initial_vertex)
        /\ pc = "assign" =>
              vertices[best_vertex_for_this_iteration].heuristic_value
                  = DistinctNeighborColors(best_vertex_for_this_iteration)

\* C7: after the bootstrap, the vertex an IDO or DSATUR run selects is
\* uncolored and its (heuristic, degree) is a lexicographic maximum over the
\* uncolored vertices; no colored vertex is selected.
C7_LexicographicMaximum ==
    GreedyRun =>
        /\ pc = "assign" =>
              /\ best_vertex_for_this_iteration \in UncoloredSet
              /\ \A u \in UncoloredSet : KeyAtLeast(best_vertex_for_this_iteration, u)
        /\ pc = "bootstrap" => initial_vertex \in UncoloredSet

\* a selection the heuristic decided: a vertex of no smaller degree stands
\* earlier in the list and loses on the heuristic
C7_Witness ==
    /\ alg_name = "DSATUR"
    /\ pc = "assign"
    /\ \E i, j \in 1..Len(uncolored_vertices_ptrs) :
          /\ i < j
          /\ uncolored_vertices_ptrs[j] = best_vertex_for_this_iteration
          /\ LiveHeuristic(uncolored_vertices_ptrs[i])
                < LiveHeuristic(best_vertex_for_this_iteration)
          /\ StaticDegree(uncolored_vertices_ptrs[i])
                >= StaticDegree(best_vertex_for_this_iteration)

\* C8: the first vertex an IDO or DSATUR run colors has the largest degree and
\* is the lowest id among the vertices of that degree, it gets color 0, and a
\* later tie on both keys goes to the lowest id as well.
C8_LowestIdWinsTies ==
    GreedyRun =>
        /\ pc = "bootstrap" =>
              /\ \A u \in V : StaticDegree(initial_vertex) >= StaticDegree(u)
              /\ \A u \in V : StaticDegree(u) = StaticDegree(initial_vertex)
                                 => initial_vertex <= u
        /\ pc = "assign" =>
              \A u \in UncoloredSet :
                  SameKey(u, best_vertex_for_this_iteration)
                      => best_vertex_for_this_iteration <= u
        /\ pc \in {"loop", "assign"} => Color(initial_vertex) = 0

\* colors that a neighbor of v holds
Blocked(v) == {Color(u) : u \in Nbrs(v)} \ {Uncolored}

\* C9: the greedy driver gives the selected vertex the smallest color that no
\* neighbor holds; the palette grows, by the next unused index, exactly when
\* the neighbors hold every color of the palette; a vertex that has a color
\* keeps it until the driver returns.
C9_FirstFit ==
    [][GreedyRun =>
        /\ pc = "assign" =>
              LET b     == best_vertex_for_this_iteration
                  free  == {c \in Range(color_palette) : c \notin Blocked(b)}
                  least == CHOOSE c \in 0..num_vertices :
                              c \notin Blocked(b) /\ \A d \in 0..(c - 1) : d \in Blocked(b)
              IN  /\ vertices'[b].color = least
                  /\ free # {} => /\ vertices'[b].color \in free
                                  /\ color_palette' = color_palette
                  /\ free = {} => /\ vertices'[b].color = next_available_color_idx
                                  /\ color_palette' = Append(color_palette, next_available_color_idx)
                                  /\ next_available_color_idx' = next_available_color_idx + 1
        /\ pc \in {"sort", "bootstrap", "loop", "assign"} =>
              \A v \in V : IsColored(v) => vertices'[v].color = vertices[v].color
      ]_vars

\* a color other than 0 has been given a second time, and a third color exists
C9_Witness ==
    /\ GreedyRun
    /\ pc = "loop"
    /\ Len(color_palette) >= 3
    /\ \E u, v \in V : u # v /\ Color(u) = 1 /\ Color(v) = 1

\* the members of the color class c
ColorClass(c) == {v \in V : Color(v) = c}

\* C10: a class that RLF closes is independent and every vertex still
\* uncolored is adjacent to one of its members; while the class is built, the
\* forbidden set is the set of vertices adjacent to a member of the class.
C10_ClassIsMaximalIndependent ==
    alg_name = "RLF" =>
        /\ (pc = "outer" /\ current_color >= 1) =>
              LET K == ColorClass(current_color - 1)
              IN  /\ K # {}
                  /\ \A u, v \in K : ~Adjacent(u, v)
                  /\ \A u \in UncoloredSet : \E m \in K : Adjacent(u, m)
        /\ pc \in {"inner", "add"} =>
              /\ \A k \in V : forbidden_for_current_color[k]
                                 <=> \E m \in ColorClass(current_color) : Adjacent(m, k)
              /\ ~forbidden_for_current_color[0]

C10_Witness ==
    /\ alg_name = "RLF"
    /\ pc = "outer"
    /\ current_color = 1
    /\ Cardinality(ColorClass(0)) >= 2
    /\ UncoloredSet # {}
    /\ \E v \in ColorClass(0) : Nbrs(v) # {}

\* the vertices adjacent to a member of the class RLF is building
ForbiddenSet == {k \in V : \E m \in ColorClass(current_color) : Adjacent(m, k)}

\* the vertices that may still join the class
Eligible == UncoloredSet \ ForbiddenSet

\* neighbors of v in the forbidden set
AdjacentInForbidden(v) == Cardinality(Nbrs(v) \cap ForbiddenSet)

\* a comes before b: more neighbors in the forbidden set, then larger
\* degree, then lower id
RLFPrefers(a, b) ==
    \/ AdjacentInForbidden(a) > AdjacentInForbidden(b)
    \/ /\ AdjacentInForbidden(a) = AdjacentInForbidden(b)
       /\ StaticDegree(a) > StaticDegree(b)
    \/ /\ AdjacentInForbidden(a) = AdjacentInForbidden(b)
       /\ StaticDegree(a) = StaticDegree(b)
       /\ a <= b

\* C11: the seed of an RLF class is the uncolored vertex of largest degree,
\* lowest id among equals; each vertex added later is uncolored, not
\* forbidden, and first among those by number of forbidden neighbors, then
\* degree, then lowest id.
C11_RLFSelection ==
    alg_name = "RLF" =>
        /\ pc = "seed" =>
              /\ v_i \in UncoloredSet
              /\ \A u \in UncoloredSet :
                    \/ StaticDegree(v_i) > StaticDegree(u)
                    \/ StaticDegree(v_i) = StaticDegree(u) /\ v_i <= u
        /\ pc = "add" =>
              /\ v_j_candidate \in Eligible
              /\ \A u \in Eligible : RLFPrefers(v_j_candidate, u)

\* the degree decided between two eligible vertices with as many forbidden
\* neighbors, against the order of the ids
C11_Witness ==
    /\ alg_name = "RLF"
    /\ pc = "add"
    /\ \E u \in Eligible :
          /\ u < v_j_candidate
          /\ AdjacentInForbidden(u) = AdjacentInForbidden(v_j_candidate)
          /\ StaticDegree(u) < StaticDegree(v_j_candidate)

----------------------------------------------------------------------------
(* RLF_coloring alone, on graphs with one vertex more *)

\* Largest number of vertices of the graphs RLF alone is run on.
MaxRLFN == 5

\* the outcome of std::sort that keeps vertices of equal degree in id order
StableSortOrder(vs, n) ==
    CHOOSE s \in SortOutcomes(vs, n) :
        \A i, j \in 1..n : (i < j /\ vs[s[i]].degree = vs[s[j]].degree) => s[i] < s[j]

RLFInit ==
    /\ num_vertices \in 0..MaxRLFN
    /\ \E E \in SUBSET Pairs(num_vertices) : edges = EdgeList(E)
    /\ vertices = readGraphFile(num_vertices, edges)
    /\ sortOrder = StableSortOrder(vertices, num_vertices)
    /\ pc = "idle"
    /\ alg_name = "none"
    /\ ret = -1
    /\ warned = FALSE
    /\ color_palette = NoLocals.color_palette
    /\ next_available_color_idx = NoLocals.next_available_color_idx
    /\ uncolored_vertices_ptrs = NoLocals.uncolored_vertices_ptrs
    /\ initial_vertex = NoLocals.initial_vertex
    /\ best_vertex_for_this_iteration = NoLocals.best_vertex_for_this_iteration
    /\ current_color = NoLocals.current_color
    /\ total_colored_vertices = NoLocals.total_colored_vertices
    /\ forbidden_for_current_color = NoLocals.forbidden_for_current_color
    /\ v_i = NoLocals.v_i
    /\ v_j_candidate = NoLocals.v_j_candidate

RLFNext ==
    \/ Call("RLF")
    \/ DoRLFEnter
    \/ DoRLFSeedSelect
    \/ DoRLFSeedColor
    \/ DoRLFInnerSelect
    \/ DoRLFInnerAdd
    \/ DoRLFReturn

RLFSpec == RLFInit /\ [][RLFNext]_vars

----------------------------------------------------------------------------
(* Any edge list with endpoints in 1..N: an edge may be listed more than
   once, in either direction, and may join a vertex to itself *)

\* Largest number of vertices of the files with arbitrary 'e' lines.
MaxLoadN == 3

\* Largest number of 'e' lines of such a file.
MaxEdgeLines == 2

\* the 'e' lines readGraphFile accepts without a warning, in file order
EdgeLines(n, m) == UNION {[1..k -> (1..n) \X (1..n)] : k \in 0..m}

LoadInit ==
    /\ num_vertices \in 0..MaxLoadN
    /\ edges \in EdgeLines(num_vertices, MaxEdgeLines)
    /\ vertices = readGraphFile(num_vertices, edges)
    /\ sortOrder \in SortOutcomes(vertices, num_vertices)
    /\ pc = "idle"
    /\ alg_name = "none"
    /\ ret = -1
    /\ warned = FALSE
    /\ color_palette = NoLocals.color_palette
    /\ next_available_color_idx = NoLocals.next_available_color_idx
    /\ uncolored_vertices_ptrs = NoLocals.uncolored_vertices_ptrs
    /\ initial_vertex = NoLocals.initial_vertex
    /\ best_vertex_for_this_iteration = NoLocals.best_vertex_for_this_iteration
    /\ current_color = NoLocals.current_color
    /\ total_colored_vertices = NoLocals.total_colored_vertices
    /\ forbidden_for_current_color = NoLocals.forbidden_for_current_color
    /\ v_i = NoLocals.v_i
    /\ v_j_candidate = NoLocals.v_j_candidate

LoadSpec == LoadInit /\ [][Next]_vars

\* the neighbor list of u names v
Listed(u, v) == v \in Range(vertices[u].neighbors)

\* the degree field is the number of distinct adjacent vertices
DegreeCountsDistinctNeighbors == \A v \in V : vertices[v].degree = StaticDegree(v)

\* v is in u's neighbor list iff u is in v's
AdjacencySymmetric == \A u, v \in V : Listed(u, v) <=> Listed(v, u)

\* id, degree and neighbor list are what readGraphFile stored
StoreAsLoaded ==
    \A v \in V :
        /\ vertices[v].id = readGraphFile(num_vertices, edges)[v].id
        /\ vertices[v].degree = readGraphFile(num_vertices, edges)[v].degree
        /\ vertices[v].neighbors = readGraphFile(num_vertices, edges)[v].neighbors

\* C12: after readGraphFile loads any edge list with endpoints in 1..N, and
\* after any sequence of driver runs, each vertex's degree field is the number
\* of distinct vertices adjacent to it, adjacency is symmetric, and no driver
\* has changed a vertex's id, degree or neighbor list.
C12_StoreInvariant ==
    /\ DegreeCountsDistinctNeighbors
    /\ AdjacencySymmetric
    /\ StoreAsLoaded

====
